---- MODULE Spec2Model ----
(***************************************************************************)
(* A model of aocd's example extraction: src/aocd/examples.py and its      *)
(* earlier revision src/aocd/example_parser.py.                            *)
(*                                                                         *)
(*   Page.from_raw      parses a puzzle page into a Page                   *)
(*   Page.__getattr__   the cached a_code / b_pre / ... accessors          *)
(*   Page.ca, Page.cb   the uncached accessors of example_parser.py        *)
(*   _locators          the @cache'd load of examples.json                 *)
(*   extract_examples   evaluates the locators of a page                   *)
(*   main               the scoring loop of both files                     *)
(*                                                                         *)
(* Python strings are sequences of one-character strings; Python values    *)
(* are records tagged with their type.                                     *)
(***************************************************************************)
EXTENDS Integers, Sequences, FiniteSets, TLC

VARIABLES
    impl,            \* which file is running: "examples" or "example_parser"
    html,            \* the raw page handed to from_raw / extract_examples
    pc,              \* position of the sequential caller
    page,            \* the Page instance (NoPage before from_raw)
    scans,           \* per view name: how often article.find_all ran for it
    stores,          \* per view name: how often setattr stored a result
    nreq,            \* number of attribute requests made on the page
    ret,             \* outcome of the last call
    evaluated,       \* <<entry, field, expression>> triples handed to eval()
    use_default,     \* the use_default_locators argument of the last extract_examples
    locators_cache,  \* functools.cache of _locators: NoData or the loaded data
    loads,           \* how often the body of _locators ran
    lstores,         \* how often the cache of _locators was written
    hday,            \* main: the day the loop is at
    hin,             \* main: part_b_locked, scrapeds and corrects of that day
    rows,            \* main: the rows of the day just scored
    diag,            \* main: whether the length-mismatch message was logged
    score,           \* main: the variable score
    total,           \* main: the variable total
    matched,         \* number of rows so far with i2, i3 and i4 all true
    scored,          \* number of rows so far
    tpc,             \* per thread: position inside the call it is making
    top,             \* per thread: the call it is making
    tdone            \* per thread: number of calls completed

vars == <<impl, html, pc, page, scans, stores, nreq, ret, evaluated, use_default,
          locators_cache, loads, lstores, hday, hin, rows, diag, score, total,
          matched, scored, tpc, top, tdone>>

pageVars == <<page, scans, stores, nreq, ret, evaluated, use_default>>
locVars == <<locators_cache, loads, lstores>>
mainVars == <<hday, hin, rows, diag, score, total>>
tallyVars == <<matched, scored>>
threadVars == <<tpc, top, tdone>>

(***************************************************************************)
(* Bounds of the model.                                                    *)
(***************************************************************************)
MaxArticles == 3     \* longest list of <article> elements in a page
MaxEntries == 2      \* longest list of locators configured for one puzzle
MaxRequests == 3     \* attribute requests made on one Page
MaxExamples == 2     \* longest scraped / correct list of one day
MaxBatchExamples == 1 \* the same, where the rows of a whole year are tallied
MaxCalls == 2        \* calls made by each concurrent thread

(***************************************************************************)
(* Python values.                                                          *)
(***************************************************************************)
PyNone == [t |-> "none", v |-> <<>>]
PyStr(s) == [t |-> "str", v |-> s]
PyInt(n) == [t |-> "int", v |-> <<n>>]
PyList(l) == [t |-> "list", v |-> l]
PyTag(text, codes) == [t |-> "tag", v |-> <<text, codes>>]

IsStr(x) == x.t = "str"
IsNone(x) == x.t = "none"

NL == "\n"
CR == "\r"

\* str.rstrip("\r\n"): drop every trailing carriage return and line feed
RECURSIVE rstrip(_)
rstrip(s) ==
    IF s = <<>> THEN s
    ELSE IF s[Len(s)] \in {CR, NL} THEN rstrip(SubSeq(s, 1, Len(s) - 1))
    ELSE s

\* "\n".join(l) for a sequence of strings
RECURSIVE join(_)
join(l) ==
    IF l = <<>> THEN <<>>
    ELSE IF Len(l) = 1 THEN l[1]
    ELSE l[1] \o <<NL>> \o join(Tail(l))

(***************************************************************************)
(* Pages.  An <article> is given by what find_all returns for each of the  *)
(* four whitelisted tags.                                                  *)
(***************************************************************************)
Tags == {"code", "li", "pre", "em"}
ViewNames == {"a_code", "a_li", "a_pre", "a_em", "b_code", "b_li", "b_pre", "b_em"}

PartOf(name) == IF name \in {"a_code", "a_li", "a_pre", "a_em"} THEN "a" ELSE "b"
TagOf(name) ==
    IF name \in {"a_code", "b_code"} THEN "code"
    ELSE IF name \in {"a_li", "b_li"} THEN "li"
    ELSE IF name \in {"a_pre", "b_pre"} THEN "pre"
    ELSE "em"

ArticleOne ==
    [code |-> << <<"x">>, <<"y", NL>> >>,
     pre  |-> << <<"1", NL, "2", NL>> >>,
     em   |-> << <<"7">> >>,
     li   |-> << [text |-> <<"i">>, codes |-> << <<"x">> >>] >>]

ArticleTwo ==
    [code |-> << <<"z", CR, NL>> >>,
     pre  |-> << >>,
     em   |-> << <<"8">>, <<"9">> >>,
     li   |-> << >>]

Articles == {ArticleOne, ArticleTwo}

\* The <title> text as its tokens; the pattern of from_raw is
\* ^Day (\d{1,2}) - Advent of Code (\d{4})$
Titles ==
    { <<"Day", 5, "-", "Advent of Code", 2022>>,
      <<"Day", 25, "-", "Advent of Code", 2022>>,
      <<"Day", 5, "-", "Advent of Code">> }

TitleMatches(title) ==
    /\ Len(title) = 5
    /\ title[1] = "Day"
    /\ title[2] \in 0..99
    /\ title[3] = "-"
    /\ title[4] = "Advent of Code"
    /\ title[5] \in 0..9999

SeqsUpTo(S, n) == UNION { [1..k -> S] : k \in 0..n }

Htmls == [title : Titles, articles : SeqsUpTo(Articles, MaxArticles)]

\* article_b = None
NoArticle == [code |-> <<>>, pre |-> <<>>, em |-> <<>>, li |-> <<>>]
Unset == [t |-> "unset", v |-> <<>>]
NoAttrs == [n \in ViewNames |-> Unset]
NoPage ==
    [ok |-> FALSE, year |-> 0, day |-> 0, article_a |-> NoArticle,
     has_b |-> FALSE, article_b |-> NoArticle, attrs |-> NoAttrs]

Raised(kind) == [t |-> "raise", v |-> <<kind>>]
IsRaised(x) == x.t = "raise"

TwoArticlesOrMore(n) == n >= 2

\* The article count at which from_raw takes its two-article branch
TwoArticles(n) == n = 2

\* Page.from_raw: the Page, or the ExampleParserError raised
from_raw(h) ==
    LET n == Len(h.articles) IN
    IF ~TitleMatches(h.title) THEN [raised |-> "title", page |-> NoPage]
    ELSE IF n = 0 THEN [raised |-> "no_article", page |-> NoPage]
    ELSE IF n = 1 THEN
        [raised |-> "",
         page |-> [ok |-> TRUE, year |-> h.title[5], day |-> h.title[2],
                   article_a |-> h.articles[1],
                   has_b |-> FALSE, article_b |-> NoArticle, attrs |-> NoAttrs]]
    ELSE IF TwoArticles(n) THEN
        [raised |-> "",
         page |-> [ok |-> TRUE, year |-> h.title[5], day |-> h.title[2],
                   article_a |-> h.articles[1],
                   has_b |-> TRUE, article_b |-> h.articles[2], attrs |-> NoAttrs]]
    ELSE [raised |-> "too_many", page |-> NoPage]

(***************************************************************************)
(* Attribute access on a Page.  Names are split at the first underscore    *)
(* by table, since the model's names are atoms.                            *)
(***************************************************************************)
FieldNames == {"soup"}
Names == ViewNames \cup {"a_div", "c_code"} \cup FieldNames

NamePart(name) ==
    IF name \in ViewNames THEN PartOf(name)
    ELSE IF name = "a_div" THEN "a"
    ELSE IF name = "c_code" THEN "c"
    ELSE name

NameTag(name) ==
    IF name \in ViewNames THEN TagOf(name)
    ELSE IF name = "a_div" THEN "div"
    ELSE IF name = "c_code" THEN "code"
    ELSE ""

\* article.find_all(tag), turned into the list __getattr__ builds from it
FindAll(article, tag) ==
    IF tag = "li"
    THEN PyList([i \in 1..Len(article.li) |->
                    PyTag(article.li[i].text, article.li[i].codes)])
    ELSE IF tag = "code" THEN PyList([i \in 1..Len(article.code) |-> PyStr(article.code[i])])
    ELSE IF tag = "pre" THEN PyList([i \in 1..Len(article.pre) |-> PyStr(article.pre[i])])
    ELSE PyList([i \in 1..Len(article.em) |-> PyStr(article.em[i])])

\* Page.__getattr__(name), reached only when normal lookup found nothing
Page_getattr(p, name) ==
    IF NamePart(name) \notin {"a", "b"} \/ name \in FieldNames
    THEN [page |-> p, val |-> Raised("AttributeError"), scanned |-> {}, stored |-> {}]
    ELSE IF NamePart(name) = "b" /\ ~p.has_b
    THEN [page |-> p, val |-> Raised("AttributeError"), scanned |-> {}, stored |-> {}]
    ELSE IF NameTag(name) \notin Tags
    THEN [page |-> p, val |-> Raised("AttributeError"), scanned |-> {}, stored |-> {}]
    ELSE LET article == IF NamePart(name) = "a" THEN p.article_a ELSE p.article_b
             result == FindAll(article, NameTag(name))
         IN [page |-> [p EXCEPT !.attrs[name] = result], val |-> result,
             scanned |-> {name}, stored |-> {name}]

\* getattr(page, name): the instance's own attributes first, then __getattr__
PageGet(p, name) ==
    IF name \in FieldNames
    THEN [page |-> p, val |-> PyStr(<<name>>), scanned |-> {}, stored |-> {}]
    ELSE IF name \in ViewNames /\ p.attrs[name] # Unset
    THEN [page |-> p, val |-> p.attrs[name], scanned |-> {}, stored |-> {}]
    ELSE Page_getattr(p, name)

\* Page.ca of example_parser.py: a property, recomputed at every access
Page_ca(p) ==
    [page |-> p, val |-> FindAll(p.article_a, "code"), scanned |-> {"a_code"},
     stored |-> {}]

\* Page.cb of example_parser.py
Page_cb(p) ==
    IF ~p.has_b
    THEN [page |-> p, val |-> Raised("AttributeError"), scanned |-> {}, stored |-> {}]
    ELSE [page |-> p, val |-> FindAll(p.article_b, "code"), scanned |-> {"b_code"},
          stored |-> {}]

Bump(f, S) == [n \in DOMAIN f |-> IF n \in S THEN f[n] + 1 ELSE f[n]]

NoCounts == [n \in ViewNames |-> 0]
NoRet == [kind |-> "none", val |-> PyNone]
NoInput == [locked |-> FALSE, scrapeds |-> <<>>, corrects |-> <<>>]

(***************************************************************************)
(* Locators.  A locator gives, per field, the text of a Python expression  *)
(* (or null, or nothing).  The expressions of the model:                   *)
(*   idx      name[i]           whole    name                              *)
(*   len      len(name)         pageidx  page.name[i]                      *)
(*   none     None                                                         *)
(***************************************************************************)
Fields == <<"input_data", "answer_a", "answer_b", "extra">>

ExIdx(name, i) == [op |-> "idx", name |-> name, i |-> i]
ExWhole(name) == [op |-> "whole", name |-> name, i |-> 0]
ExLen(name) == [op |-> "len", name |-> name, i |-> 0]
ExPageIdx(name, i) == [op |-> "pageidx", name |-> name, i |-> i]
ExNone == [op |-> "none", name |-> "", i |-> 0]
Null == [op |-> "null", name |-> "", i |-> 0]       \* JSON null
Missing == [op |-> "missing", name |-> "", i |-> 0] \* the key is not in the object

DefaultPlain ==
    [input_data |-> ExIdx("a_pre", 0), answer_a |-> ExIdx("a_code", -1),
     answer_b |-> ExIdx("b_code", -1), extra |-> Null]

DefaultExtra ==
    [input_data |-> ExIdx("a_pre", 0), answer_a |-> Null,
     answer_b |-> ExIdx("a_em", 0), extra |-> ExIdx("a_em", 0)]

Defaults == {DefaultPlain, DefaultExtra}

LocInherit ==
    [input_data |-> Missing, answer_a |-> Missing, answer_b |-> Missing,
     extra |-> Missing]

LocSecondPre ==
    [input_data |-> ExIdx("a_pre", 1), answer_a |-> ExIdx("a_code", 0),
     answer_b |-> ExIdx("b_em", -1), extra |-> ExIdx("a_em", 0)]

LocPartB ==
    [input_data |-> ExIdx("b_code", 0), answer_a |-> Null,
     answer_b |-> ExPageIdx("b_em", 0), extra |-> Null]

LocWhole ==
    [input_data |-> ExWhole("a_code"), answer_a |-> ExPageIdx("a_em", -1),
     answer_b |-> ExWhole("b_em"), extra |-> Missing]

LocLen ==
    [input_data |-> ExIdx("a_pre", 0), answer_a |-> ExLen("a_code"),
     answer_b |-> Missing, extra |-> Missing]

LocTag ==
    [input_data |-> ExIdx("a_li", 0), answer_a |-> Missing,
     answer_b |-> Missing, extra |-> Missing]

LocNone ==
    [input_data |-> ExNone, answer_a |-> ExIdx("a_code", 0),
     answer_b |-> ExIdx("b_code", 0), extra |-> Missing]

Locators == {LocInherit, LocSecondPre, LocPartB, LocWhole, LocLen, LocTag, LocNone}

\* f"{page.year}/{page.day:02d}": one key per (year, day)
Key(year, day) == <<year, day>>

PuzzleKeys == {Key(2022, 5), Key(2022, 25)}

\* The contents examples.json can have
Datas ==
    { [loaded |-> TRUE, default_locators |-> d, puzzles |-> [k \in K |-> e]] :
        d \in Defaults, K \in SUBSET PuzzleKeys, e \in SeqsUpTo(Locators, MaxEntries) }

NoData == [loaded |-> FALSE]

(***************************************************************************)
(* extract_examples of examples.py.                                        *)
(***************************************************************************)
\* l[i] on a Python list: negative indices count from the end
PyIndex(l, i) ==
    IF i >= 0 /\ i < Len(l) THEN l[i + 1]
    ELSE IF i < 0 /\ -i <= Len(l) THEN l[Len(l) + i + 1]
    ELSE Raised("IndexError")

\* eval(pos, scope): the value, or the exception eval raises
Eval(pos, scope, p) ==
    IF pos.op \in {"null", "missing"} THEN Raised("TypeError")
    ELSE IF pos.op = "none" THEN PyNone
    ELSE IF pos.op = "pageidx" THEN
        LET r == PageGet(p, pos.name) IN
        IF IsRaised(r.val) THEN r.val ELSE PyIndex(r.val.v, pos.i)
    ELSE IF scope[pos.name] = Unset THEN Raised("NameError")
    ELSE IF pos.op = "idx" THEN PyIndex(scope[pos.name].v, pos.i)
    ELSE IF pos.op = "len" THEN PyInt(Len(scope[pos.name].v))
    ELSE scope[pos.name]

\* lines 175-178: try: val = eval(pos, scope) / except Exception: val = None
TryEval(pos, scope, p) ==
    LET val == Eval(pos, scope, p) IN IF IsRaised(val) THEN PyNone ELSE val

\* lines 179-180: a list or tuple is joined; join raises on a non-string item
JoinIfList(val) ==
    IF val.t # "list" THEN val
    ELSE IF \A i \in 1..Len(val.v) : IsStr(val.v[i])
    THEN PyStr(join([i \in 1..Len(val.v) |-> val.v[i].v]))
    ELSE Raised("TypeError")

\* lines 181-182: val.rstrip("\r\n") unless val is None
Strip(val) ==
    IF IsRaised(val) \/ IsNone(val) THEN val
    ELSE IF IsStr(val) THEN PyStr(rstrip(val.v))
    ELSE Raised("AttributeError")

SkipsBLockedOnly(k, locked, day) == k = "answer_b" /\ locked

\* line 172: answer_b is not evaluated
SkipsB(k, locked, day) == k = "answer_b" /\ (locked \/ day = 25)

\* line 169: loc.get(k, default[k])
Pos(loc, default, k) == IF loc[k] = Missing THEN default[k] ELSE loc[k]

\* lines 167-183: the fields of one locator, from field number j on.
\* acc = [vals, evald, raised]
RECURSIVE FieldLoop(_, _, _, _, _, _)
FieldLoop(loc, default, scope, p, j, acc) ==
    IF j > Len(Fields) THEN acc
    ELSE LET k == Fields[j]
             pos == Pos(loc, default, k)
         IN IF k = "extra" /\ pos = Null THEN acc
            ELSE IF SkipsB(k, ~p.has_b, p.day)
            THEN FieldLoop(loc, default, scope, p, j + 1,
                           [acc EXCEPT !.vals = Append(@, PyNone)])
            ELSE LET val == Strip(JoinIfList(TryEval(pos, scope, p)))
                     seen == acc.evald \cup {<<k, pos>>}
                 IN IF IsRaised(val)
                    THEN [acc EXCEPT !.evald = seen, !.raised = val.v[1]]
                    ELSE FieldLoop(loc, default, scope, p, j + 1,
                                   [acc EXCEPT !.vals = Append(@, val), !.evald = seen])

\* Example(*vals): the fields not given default to None
Example(vals) ==
    [input_data |-> vals[1],
     answer_a |-> IF Len(vals) >= 2 THEN vals[2] ELSE PyNone,
     answer_b |-> IF Len(vals) >= 3 THEN vals[3] ELSE PyNone,
     extra |-> IF Len(vals) >= 4 THEN vals[4] ELSE PyNone]

KeepsAll(vals) == TRUE

\* line 184: the example is kept
Keeps(vals) == ~IsNone(vals[1])

\* lines 166-185: the locators from number i on.  acc = [result, evald, raised]
RECURSIVE LocLoop(_, _, _, _, _, _)
LocLoop(locs, default, scope, p, i, acc) ==
    IF i > Len(locs) THEN acc
    ELSE LET f == FieldLoop(locs[i], default, scope, p, 1,
                            [vals |-> <<>>, evald |-> {}, raised |-> ""])
             seen == acc.evald \cup { <<i, e[1], e[2]>> : e \in f.evald }
         IN IF f.raised # ""
            THEN [acc EXCEPT !.evald = seen, !.raised = f.raised]
            ELSE LocLoop(locs, default, scope, p, i + 1,
                         [acc EXCEPT !.evald = seen,
                                     !.result = IF Keeps(f.vals)
                                                THEN Append(@, Example(f.vals))
                                                ELSE @])

\* lines 153-155: the names bound in scope, in the order they are bound
ScopeNames(locked) ==
    IF locked THEN <<"a_code", "a_pre", "a_em", "a_li">>
    ELSE <<"a_code", "a_pre", "a_em", "a_li", "b_code", "b_pre", "b_em", "b_li">>

\* lines 154-157: scope[name] = getattr(page, name).  acc = [page, scope, scanned, stored]
RECURSIVE ScopeLoop(_, _, _)
ScopeLoop(names, j, acc) ==
    IF j > Len(names) THEN acc
    ELSE LET r == PageGet(acc.page, names[j]) IN
         ScopeLoop(names, j + 1,
                   [page |-> r.page,
                    scope |-> [acc.scope EXCEPT ![names[j]] = r.val],
                    scanned |-> Bump(acc.scanned, r.scanned),
                    stored |-> Bump(acc.stored, r.stored)])

\* lines 159-165: the locators of the page
Select(data, p, use_default_locators) ==
    IF use_default_locators THEN <<data.default_locators>>
    ELSE IF Key(p.year, p.day) \in DOMAIN data.puzzles
    THEN data.puzzles[Key(p.year, p.day)]
    ELSE <<data.default_locators>>

\* extract_examples(html, use_default_locators), with the locators data
extract_examples(h, data, use_default_locators) ==
    LET parsed == from_raw(h) IN
    IF parsed.raised # ""
    THEN [raised |-> parsed.raised, result |-> <<>>, page |-> NoPage,
          scanned |-> NoCounts, stored |-> NoCounts, evald |-> {}]
    ELSE LET s == ScopeLoop(ScopeNames(~parsed.page.has_b), 1,
                            [page |-> parsed.page, scope |-> NoAttrs,
                             scanned |-> NoCounts, stored |-> NoCounts])
             l == LocLoop(Select(data, s.page, use_default_locators),
                          data.default_locators, s.scope, s.page, 1,
                          [result |-> <<>>, evald |-> {}, raised |-> ""])
         IN [raised |-> l.raised, result |-> l.result, page |-> s.page,
             scanned |-> s.scanned, stored |-> s.stored, evald |-> l.evald]

(***************************************************************************)
(* The sequential caller: one page, parsed once, then read.                *)
(***************************************************************************)
Impls == {"examples", "example_parser"}

Init ==
    /\ impl \in Impls
    /\ html \in Htmls
    /\ pc = "start"
    /\ page = NoPage
    /\ scans = NoCounts
    /\ stores = NoCounts
    /\ nreq = 0
    /\ ret = NoRet
    /\ evaluated = {}
    /\ use_default = FALSE
    /\ locators_cache = NoData
    /\ loads = 0
    /\ lstores = 0
    /\ hday = 0
    /\ hin = NoInput
    /\ rows = <<>>
    /\ diag = FALSE
    /\ score = 0
    /\ total = 0
    /\ matched = 0
    /\ scored = 0
    /\ tpc = <<>>
    /\ top = <<>>
    /\ tdone = <<>>

\* page = Page.from_raw(html)
FromRaw ==
    /\ pc = "start"
    /\ LET r == from_raw(html) IN
        /\ page' = r.page
        /\ pc' = IF r.raised = "" THEN "page" ELSE "raised"
        /\ ret' = IF r.raised = "" THEN [kind |-> "page", val |-> PyNone]
                  ELSE [kind |-> "raise", val |-> Raised(r.raised)]
    /\ UNCHANGED <<impl, html, scans, stores, nreq, evaluated, use_default>>
    /\ UNCHANGED <<locVars, mainVars, tallyVars, threadVars>>

Request(r) ==
    /\ page' = r.page
    /\ scans' = Bump(scans, r.scanned)
    /\ stores' = Bump(stores, r.stored)
    /\ nreq' = nreq + 1
    /\ ret' = [kind |-> IF IsRaised(r.val) THEN "raise" ELSE "value", val |-> r.val]
    /\ UNCHANGED <<impl, html, pc, evaluated, use_default>>
    /\ UNCHANGED <<locVars, mainVars, tallyVars, threadVars>>

\* page.<name> on a Page of examples.py
GetAttr(name) ==
    /\ pc = "page"
    /\ impl = "examples"
    /\ nreq < MaxRequests
    /\ Request(PageGet(page, name))

\* page.ca on a Page of example_parser.py
GetCa ==
    /\ pc = "page"
    /\ impl = "example_parser"
    /\ nreq < MaxRequests
    /\ Request(Page_ca(page))

\* page.cb on a Page of example_parser.py
GetCb ==
    /\ pc = "page"
    /\ impl = "example_parser"
    /\ nreq < MaxRequests
    /\ Request(Page_cb(page))

\* _locators(): functools.cache runs the body on a miss and keeps what it returns
LocatorsCall(data) ==
    IF locators_cache.loaded
    THEN [val |-> locators_cache, ran |-> 0]
    ELSE [val |-> data, ran |-> 1]

\* examples = extract_examples(html, use_default_locators); data is what
\* examples.json holds
ExtractExamples(data, flag) ==
    /\ pc = "start"
    /\ impl = "examples"
    /\ \E l \in {LocatorsCall(data)} : \E r \in {extract_examples(html, l.val, flag)} :
          /\ page' = r.page
          /\ scans' = r.scanned
          /\ stores' = r.stored
          /\ evaluated' = r.evald
          /\ ret' = IF r.raised # ""
                    THEN [kind |-> "raise", val |-> Raised(r.raised)]
                    ELSE [kind |-> "examples", val |-> r.result]
          \* _locators is called after from_raw and the scope loop
          /\ locators_cache' = IF r.page.ok THEN l.val ELSE locators_cache
          /\ loads' = IF r.page.ok THEN loads + l.ran ELSE loads
          /\ lstores' = IF r.page.ok THEN lstores + l.ran ELSE lstores
    /\ use_default' = flag
    /\ pc' = "extracted"
    /\ UNCHANGED <<impl, html, nreq>>
    /\ UNCHANGED <<mainVars, tallyVars, threadVars>>

Next ==
    \/ FromRaw
    \/ \E name \in Names : GetAttr(name)
    \/ GetCa
    \/ GetCb
    \/ \E data \in Datas, flag \in BOOLEAN : ExtractExamples(data, flag)

Spec == Init /\ [][Next]_vars

(***************************************************************************)
(* main: the scoring loop, one year.  The table that is printed and the    *)
(* list `wrong` are left out: nothing computed here reads them.            *)
(***************************************************************************)
LastDay == 25

Eg(input_data, answer_a, answer_b) ==
    [input_data |-> input_data, answer_a |-> answer_a, answer_b |-> answer_b,
     extra |-> PyNone]

EgFull == Eg(PyStr(<<"X">>), PyStr(<<"1">>), PyStr(<<"2">>))
EgPartA == Eg(PyStr(<<"X">>), PyStr(<<"1">>), PyNone)
EgOther == Eg(PyStr(<<"Y">>), PyStr(<<"1">>), PyStr(<<"3">>))

\* What the plugin (p.examples in example_parser.py) can return for a day
ScrapedExamples == {EgFull, EgPartA, EgOther}

\* What p.examples (get_actual in example_parser.py) can hold for a day
CorrectExamples == {EgFull, EgPartA}

\* missing = Example("")
missing == Eg(PyStr(<<>>), PyNone, PyNone)

\* The pages p._get_prose() can give for a day
Proses(day) ==
    { [title |-> <<"Day", day, "-", "Advent of Code", 2022>>, articles |-> a] :
        a \in { <<ArticleOne>>, <<ArticleOne, ArticleTwo>>,
                <<ArticleOne, ArticleTwo, ArticleTwo>> } }

\* zip_longest(a, b, fillvalue=fill)
zip_longest(a, b, fill) ==
    LET n == IF Len(a) >= Len(b) THEN Len(a) ELSE Len(b) IN
    [i \in 1..n |-> << IF i <= Len(a) THEN a[i] ELSE fill,
                       IF i <= Len(b) THEN b[i] ELSE fill >>]

\* examples.py line 258 / example_parser.py line 177: the message is logged
LogsMismatch(which, scrapeds, corrects) ==
    IF which = "examples" THEN Len(scrapeds) # Len(corrects)
    ELSE Len(scrapeds) > Len(corrects)

AnswerBStrict(locked, scraped, correct) == scraped.answer_b = correct.answer_b

\* lines 272-275: i4
AnswerBMatch(locked, scraped, correct) ==
    IF locked THEN IsNone(scraped.answer_b)
    ELSE scraped.answer_b = correct.answer_b

\* lines 270-276: the verdicts of one pair
Verdict(locked, scraped, correct) ==
    [scraped |-> scraped, correct |-> correct,
     i2 |-> scraped.input_data = correct.input_data,
     i3 |-> scraped.answer_a = correct.answer_a,
     i4 |-> AnswerBMatch(locked, scraped, correct),
     i5 |-> scraped.extra = correct.extra]

InitMain ==
    /\ impl \in Impls
    /\ html = [title |-> <<>>, articles |-> <<>>]
    /\ pc = "fetch"
    /\ page = NoPage
    /\ scans = NoCounts
    /\ stores = NoCounts
    /\ nreq = 0
    /\ ret = NoRet
    /\ evaluated = {}
    /\ use_default = FALSE
    /\ locators_cache = NoData
    /\ loads = 0
    /\ lstores = 0
    /\ hday = 1
    /\ hin = NoInput
    /\ rows = <<>>
    /\ diag = FALSE
    /\ score = 0
    /\ total = 0
    /\ matched = 0
    /\ scored = 0
    /\ tpc = <<>>
    /\ top = <<>>
    /\ tdone = <<>>

\* examples.py lines 252-257, example_parser.py lines 173-176: the page and
\* the two lists of the day
MainFetch(h, scrapeds, corrects) ==
    /\ pc = "fetch"
    /\ html' = h
    /\ IF impl = "examples"
       THEN \E r \in {from_raw(h)} :
              /\ page' = r.page
              /\ IF r.raised # ""
                 THEN /\ pc' = "raised"
                      /\ ret' = [kind |-> "raise", val |-> Raised(r.raised)]
                      /\ hin' = hin
                 ELSE /\ pc' = "score"
                      /\ ret' = ret
                      /\ hin' = [locked |-> ~r.page.has_b, scrapeds |-> scrapeds,
                                 corrects |-> corrects]
       ELSE /\ page' = page
            /\ pc' = "score"
            /\ ret' = ret
            /\ hin' = [locked |-> Len(h.articles) # 2, scrapeds |-> scrapeds,
                       corrects |-> corrects]
    /\ UNCHANGED <<impl, scans, stores, nreq, evaluated, use_default>>
    /\ UNCHANGED <<hday, rows, diag, score, total>>
    /\ UNCHANGED <<locVars, threadVars>>

\* examples.py lines 258-299, example_parser.py lines 177-213: the rows of the day
MainScore ==
    /\ pc = "score"
    /\ diag' = LogsMismatch(impl, hin.scrapeds, hin.corrects)
    /\ rows' = LET pairs == zip_longest(hin.scrapeds, hin.corrects, missing) IN
               [i \in 1..Len(pairs) |-> Verdict(hin.locked, pairs[i][1], pairs[i][2])]
    /\ pc' = "next"
    /\ UNCHANGED <<impl, html, pageVars, locVars, threadVars>>
    /\ UNCHANGED <<hday, hin, score, total>>

\* for day in range(1, 26): the next day, or the end of the loop
MainNextDay ==
    /\ pc = "next"
    /\ hday' = hday + 1
    /\ pc' = IF hday = LastDay THEN "print" ELSE "fetch"
    /\ hin' = NoInput
    /\ rows' = <<>>
    /\ diag' = FALSE
    /\ UNCHANGED <<impl, html, pageVars, locVars, threadVars>>
    /\ UNCHANGED <<score, total>>

\* examples.py lines 300-301: score/total is formatted; example_parser.py
\* line 214 prints the table only
MainPrint ==
    /\ pc = "print"
    /\ pc' = IF impl = "examples" /\ total = 0 THEN "zero_division" ELSE "done"
    /\ UNCHANGED <<impl, html, pageVars, locVars, mainVars, threadVars>>

\* The rows of a day with i2, i3 and i4 all true
AllMatch(rs) == { i \in 1..Len(rs) : rs[i].i2 /\ rs[i].i3 /\ rs[i].i4 }

\* The tallies kept beside main: rows scored and rows fully matching
Tally ==
    /\ matched' = matched + Cardinality(AllMatch(rows'))
    /\ scored' = scored + Len(rows')

NextMain ==
    \/ /\ \E h \in Proses(hday), scrapeds \in SeqsUpTo(ScrapedExamples, MaxExamples),
            corrects \in SeqsUpTo(CorrectExamples, MaxExamples) :
              MainFetch(h, scrapeds, corrects)
       /\ UNCHANGED tallyVars
    \/ MainScore /\ UNCHANGED tallyVars
    \/ MainNextDay /\ UNCHANGED tallyVars
    \/ MainPrint /\ UNCHANGED tallyVars

SpecMain == InitMain /\ [][NextMain]_vars

NextBatch ==
    \/ /\ \E h \in Proses(hday), scrapeds \in SeqsUpTo(ScrapedExamples, MaxBatchExamples),
            corrects \in SeqsUpTo(CorrectExamples, MaxBatchExamples) :
              MainFetch(h, scrapeds, corrects)
       /\ UNCHANGED tallyVars
    \/ MainScore /\ Tally
    \/ MainNextDay /\ UNCHANGED tallyVars
    \/ MainPrint /\ UNCHANGED tallyVars

SpecBatch == InitMain /\ [][NextBatch]_vars

(***************************************************************************)
(* Two threads of the host calling into one Page and into _locators.       *)
(* Neither __getattr__ nor functools.cache holds a lock around the         *)
(* wrapped computation: a call is a lookup, then on a miss the             *)
(* computation, then the store, and the other thread can run in between.   *)
(***************************************************************************)
Threads == {1, 2}

\* What a thread can call: getattr(page, name), or _locators()
Calls == {"a_code", "b_em", "_locators"}

SharedHtml ==
    [title |-> <<"Day", 5, "-", "Advent of Code", 2022>>,
     articles |-> <<ArticleOne, ArticleTwo>>]

\* What examples.json holds while the threads run
SharedData ==
    [loaded |-> TRUE, default_locators |-> DefaultPlain,
     puzzles |-> [k \in {Key(2022, 5)} |-> <<LocInherit>>]]

InitThreads ==
    /\ impl = "examples"
    /\ html = SharedHtml
    /\ pc = "threads"
    /\ page = from_raw(SharedHtml).page
    /\ scans = NoCounts
    /\ stores = NoCounts
    /\ nreq = 0
    /\ ret = NoRet
    /\ evaluated = {}
    /\ use_default = FALSE
    /\ locators_cache = NoData
    /\ loads = 0
    /\ lstores = 0
    /\ hday = 0
    /\ hin = NoInput
    /\ rows = <<>>
    /\ diag = FALSE
    /\ score = 0
    /\ total = 0
    /\ matched = 0
    /\ scored = 0
    /\ tpc = [t \in Threads |-> "idle"]
    /\ top = [t \in Threads |-> "a_code"]
    /\ tdone = [t \in Threads |-> 0]

\* Whether the lookup that precedes the computation finds a stored result:
\* the instance attribute for a view, the cache entry for _locators
Hit(call) ==
    IF call = "_locators" THEN locators_cache.loaded ELSE page.attrs[call] # Unset

\* thread t starts a call and makes the lookup
ThreadLookup(t, call) ==
    /\ tpc[t] = "idle"
    /\ tdone[t] < MaxCalls
    /\ top' = [top EXCEPT ![t] = call]
    /\ IF Hit(call)
       THEN /\ tpc' = tpc
            /\ tdone' = [tdone EXCEPT ![t] = @ + 1]
       ELSE /\ tpc' = [tpc EXCEPT ![t] = "compute"]
            /\ tdone' = tdone
    /\ UNCHANGED <<impl, html, pc, pageVars, locVars, mainVars, tallyVars>>

\* examples.py lines 93-100 (find_all) and lines 133-135 (read and parse)
ThreadCompute(t) ==
    /\ tpc[t] = "compute"
    /\ tpc' = [tpc EXCEPT ![t] = "store"]
    /\ IF top[t] = "_locators"
       THEN loads' = loads + 1 /\ scans' = scans
       ELSE loads' = loads /\ scans' = Bump(scans, {top[t]})
    /\ UNCHANGED <<impl, html, pc, page, stores, nreq, ret, evaluated, use_default>>
    /\ UNCHANGED <<locators_cache, lstores, mainVars, tallyVars, top, tdone>>

\* examples.py line 101 (setattr) and the cache's store of what _locators returned
ThreadStore(t) ==
    /\ tpc[t] = "store"
    /\ tpc' = [tpc EXCEPT ![t] = "idle"]
    /\ tdone' = [tdone EXCEPT ![t] = @ + 1]
    /\ IF top[t] = "_locators"
       THEN /\ locators_cache' = SharedData
            /\ lstores' = lstores + 1
            /\ page' = page
            /\ stores' = stores
       ELSE /\ page' = [page EXCEPT !.attrs[top[t]] =
                           FindAll(IF NamePart(top[t]) = "a" THEN page.article_a
                                   ELSE page.article_b, NameTag(top[t]))]
            /\ stores' = Bump(stores, {top[t]})
            /\ locators_cache' = locators_cache
            /\ lstores' = lstores
    /\ UNCHANGED <<impl, html, pc, scans, nreq, ret, evaluated, use_default>>
    /\ UNCHANGED <<loads, mainVars, tallyVars, top>>

NextThreads ==
    \/ \E t \in Threads, call \in Calls : ThreadLookup(t, call)
    \/ \E t \in Threads : ThreadCompute(t)
    \/ \E t \in Threads : ThreadStore(t)

SpecThreads == InitThreads /\ [][NextThreads]_vars

(***************************************************************************)
(* Properties of from_raw, of the accessors and of extract_examples.       *)
(***************************************************************************)
Extracted == pc = "extracted" /\ page.ok
ReturnedExamples == pc = "extracted" /\ ret.kind = "examples"

\* The locators extract_examples went through, and the default it used
UsedLocs == Select(locators_cache, page, use_default)
UsedDefault == locators_cache.default_locators

\* What eval gives for field k of locator loc on the page as extract left it
EvalOf(loc, k) == Eval(Pos(loc, UsedDefault, k), page.attrs, page)

\* C1: on a page with part b locked or of day 25, eval is never given an
\* answer_b expression and every Example returned has answer_b None, also
\* when the expression would evaluate and when day 25 has two articles.
C1_AnswerBAbsent ==
    (Extracted /\ (~page.has_b \/ page.day = 25)) =>
        /\ \A e \in evaluated : e[2] # "answer_b"
        /\ ret.kind = "examples" =>
              \A i \in 1..Len(ret.val) : IsNone(ret.val[i].answer_b)

\* C1 witness: a day-25 page with two articles, an Example returned, and an
\* answer_b expression that evaluates to a string on that page
C1_Witness ==
    /\ Extracted /\ page.has_b /\ page.day = 25
    /\ ret.kind = "examples" /\ Len(ret.val) > 0
    /\ \E i \in 1..Len(UsedLocs) :
          /\ IsStr(EvalOf(UsedLocs[i], "answer_b"))
          /\ IsStr(EvalOf(UsedLocs[i], "input_data"))

\* C2: with a matching title, from_raw is decided by the number of articles:
\* none or more than two raise and leave no Page and no Example list, one
\* gives article_a only, two give article_a and article_b in document order.
C2_ArticleCount ==
    (pc # "start" /\ TitleMatches(html.title)) =>
        LET n == Len(html.articles) IN
        /\ n = 0 => /\ ~page.ok
                    /\ ret = [kind |-> "raise", val |-> Raised("no_article")]
        /\ n = 1 => /\ page.ok /\ ~page.has_b
                    /\ page.article_a = html.articles[1]
                    /\ page.article_b = NoArticle
        /\ n = 2 => /\ page.ok /\ page.has_b
                    /\ page.article_a = html.articles[1]
                    /\ page.article_b = html.articles[2]
        /\ n > 2 => /\ ~page.ok
                    /\ ret = [kind |-> "raise", val |-> Raised("too_many")]
        /\ page.ok => (~page.has_b <=> n = 1)

\* C2 witness: a page with three articles was refused
C2_Witness ==
    /\ pc = "raised" /\ TitleMatches(html.title)
    /\ Len(html.articles) = 3
    /\ ret.val = Raised("too_many")

\* C3: the list returned is, in the locators' order, one Example per locator
\* whose input_data came out not None; a locator whose input_data expression
\* raised is left out and the locators after it are still processed.
C3_KeptInOrder ==
    ReturnedExamples =>
        LET n == Len(UsedLocs)
            Input(i) == Strip(JoinIfList(TryEval(Pos(UsedLocs[i], UsedDefault, "input_data"),
                                                 page.attrs, page)))
            Has(i) == ~IsNone(Input(i))
            kept == SelectSeq([i \in 1..n |-> i], Has)
        IN /\ Len(ret.val) = Len(kept)
           /\ \A j \in 1..Len(kept) :
                 /\ ret.val[j].input_data = Input(kept[j])
                 /\ ret.val[j] =
                       Example(FieldLoop(UsedLocs[kept[j]], UsedDefault, page.attrs, page, 1,
                                         [vals |-> <<>>, evald |-> {}, raised |-> ""]).vals)
           /\ \A j \in 1..Len(ret.val) : IsStr(ret.val[j].input_data)

\* C3 witness: the first locator's input_data expression raised, a later
\* locator gave the only Example returned
C3_Witness ==
    /\ ReturnedExamples
    /\ Len(UsedLocs) = 2
    /\ IsRaised(EvalOf(UsedLocs[1], "input_data"))
    /\ IsStr(EvalOf(UsedLocs[2], "input_data"))
    /\ Len(ret.val) = 1

\* C4: on a page that parsed, extract_examples returns a list and never
\* raises, whatever the locators evaluate to.
C4_NeverRaises == Extracted => ret.kind = "examples"

\* C5: each view of a Page is scanned at most once and stored at most once,
\* whatever sequence of requests is made.
C5_ScannedOnce ==
    \A n \in ViewNames : scans[n] <= 1 /\ stores[n] <= 1

\* C9: after extract_examples, every view that was computed is referenced
\* by an expression that eval was given.
C9_OnlyReferencedViews ==
    Extracted =>
        \A n \in ViewNames : scans[n] > 0 => \E e \in evaluated : e[3].name = n

(***************************************************************************)
(* Properties of main.                                                     *)
(***************************************************************************)
Scored == pc = "next"

\* The pair scored at position i: the lists' items, `missing` past their end
ScrapedAt(i) == IF i <= Len(hin.scrapeds) THEN hin.scrapeds[i] ELSE missing
CorrectAt(i) == IF i <= Len(hin.corrects) THEN hin.corrects[i] ELSE missing

\* C6: with part b locked i4 says that the scraped answer_b is None, whatever
\* the correct answer_b is; otherwise i4 says the two are equal; i2 and i3
\* are equality in both cases.
C6_AnswerBVerdict ==
    Scored =>
        \A i \in 1..Len(rows) :
            /\ hin.locked => (rows[i].i4 <=> IsNone(ScrapedAt(i).answer_b))
            /\ ~hin.locked => (rows[i].i4 <=> ScrapedAt(i).answer_b = CorrectAt(i).answer_b)
            /\ rows[i].i2 <=> ScrapedAt(i).input_data = CorrectAt(i).input_data
            /\ rows[i].i3 <=> ScrapedAt(i).answer_a = CorrectAt(i).answer_a

\* C6 witness: part b locked, scraped Example("X", "1"), correct
\* Example("X", "1", "2"), all three verdicts true
C6_Witness ==
    /\ Scored /\ hin.locked
    /\ hin.scrapeds = <<EgPartA>> /\ hin.corrects = <<EgFull>>
    /\ rows[1].i2 /\ rows[1].i3 /\ rows[1].i4

\* C7: the length-mismatch message is logged exactly when the two lists
\* differ in length, and the rows are the pairs of the two lists padded with
\* `missing` to the longer length.
C7_MismatchLogged ==
    Scored =>
        /\ diag <=> Len(hin.scrapeds) # Len(hin.corrects)
        /\ Len(rows) = IF Len(hin.scrapeds) >= Len(hin.corrects)
                       THEN Len(hin.scrapeds) ELSE Len(hin.corrects)
        /\ \A i \in 1..Len(rows) :
              rows[i].scraped = ScrapedAt(i) /\ rows[i].correct = CorrectAt(i)

\* C8: when the year is over, score is the number of rows whose i2, i3 and
\* i4 were all true, total is the number of rows scored, and the ratio is
\* formed without error once a row was scored.
C8_AggregateCount ==
    pc \in {"done", "zero_division"} =>
        /\ score = matched
        /\ total = scored
        /\ scored > 0 => pc = "done"

(***************************************************************************)
(* Properties of the two caches under concurrent callers.                  *)
(***************************************************************************)
\* C10: in every interleaving of the two threads, each view is computed
\* once and stored once, and _locators runs once and is stored once.
C10_ComputedOnce ==
    /\ \A n \in ViewNames : scans[n] <= 1 /\ stores[n] <= 1
    /\ loads <= 1
    /\ lstores <= 1

====
